---- MODULE Spec2Model ----
(***************************************************************************)
(* A model of omero_scripts_processing.py: the chain of processing blocks  *)
(* (chain.launch), the life cycle of one block activation (block.launch)   *)
(* and the loop that supervises a subprocess (bin_block.process and        *)
(* matlab_block.run_matlab).                                               *)
(*                                                                         *)
(* The module is Python 2 code (OMERO 5.0 bindings); where Python 2 and    *)
(* Python 3 differ the model follows CPython 2.                            *)
(***************************************************************************)
EXTENDS Integers, Sequences, FiniteSets, TLC

VARIABLES
  cpc,        \* chain.launch: where the method is
  bkind,      \* the class of the chain's block: "bin" or "matlab"
  params,     \* chain.launch: the submitted parameters (Data_Type, IDs)
  roots,      \* chain.launch: the items get_roots returned
  idx,        \* chain.launch: how many roots the for loop has consumed
  bi,         \* chain.launch: position in self.blocks of the inner for loop
  nimgs,      \* chain.launch: local nimgs
  nbads,      \* chain.launch: local nbads
  parent,     \* chain.launch: local parent
  output,     \* the messages handed to client.setOutput, in order
  bpc,        \* block.launch: the stage the activation is at
  b_parent,   \* block: self.parent
  dataset,    \* block: self.dataset
  datasetID,  \* block: self.datasetID
  child,      \* block: self.child
  fin,        \* block: self.fin, the set of files it refers to (none or one)
  flog,       \* block: self.flog, likewise
  tmpfiles,   \* block: self._tmpfiles
  ntmp,       \* how many temporary files were created so far
  err,        \* block.launch: the exception in flight, or None
  ran,        \* history: the methods block.launch called in this activation
  sup,        \* the supervised subprocess and the loop that polls it
  launched,   \* history: <<block position, item>> of every block.launch call
  failed,     \* history: how many items' traversals raised
  lingering,  \* subprocesses process() returned from while they still ran
  cons,       \* construction of a bin_block and of a chain: inputs and result
  ml          \* a Matlab session running code wrapped by protect_exit

chainVars == <<cpc, params, roots, idx, bi, nimgs, nbads, parent, output>>
blockVars == <<bkind, bpc, b_parent, dataset, datasetID, child, fin, flog,
               tmpfiles, ntmp, err, ran>>
histVars  == <<launched, failed>>
auxVars   == <<cons, ml>>
vars      == <<chainVars, blockVars, sup, histVars, lingering, auxVars>>

(***************************************************************************)
(* Bounds of the model and constants of the program.                       *)
(***************************************************************************)
MaxIds == 3          \* the submitted identifier list has at most MaxIds entries
MaxPolls == 3        \* polls counted; the clock stops at MaxPolls intervals
TimeoutGrain == 10   \* default of timeout_grain
NBlocks == 1         \* chain.__init__ accepts exactly one block

None  == "None"
Unset == "unset"     \* an attribute that was never assigned

\* An optional number is a sequence: <<>> for none, <<n>> for n.
NoDeadline == <<>>   \* timeout = None
Never      == <<>>   \* a subprocess that does not exit

MaxClock == TimeoutGrain * MaxPolls

Min(a, b) == IF a <= b THEN a ELSE b

(***************************************************************************)
(* The host's data: three images and two datasets.  img2 is in both        *)
(* datasets, img3 is in none.                                              *)
(***************************************************************************)
ImageIds   == {"img1", "img2", "img3"}
DatasetIds == {"ds1", "ds2"}

listChildren(ds) == IF ds = "ds1" THEN <<"img1", "img2">> ELSE <<"img2">>

listParents(img) ==
  IF img = "img1" THEN <<"ds1">>
  ELSE IF img = "img2" THEN <<"ds1", "ds2">>
  ELSE <<>>

\* The image the host creates when the result of processing img is imported.
ImportedFrom(img) ==
  IF img = "img1" THEN "child1"
  ELSE IF img = "img2" THEN "child2"
  ELSE "child3"

\* conn.getObjects(data_type, ids): the objects addressed, in the order given.
getObjects(data_type, ids) == ids

RECURSIVE Flatten(_)
Flatten(ss) == IF ss = <<>> THEN <<>> ELSE Head(ss) \o Flatten(Tail(ss))

\* A resolution that lists an image of several datasets once.
get_roots_once(data_type, ids) ==
  LET objs == getObjects(data_type, ids)
      all == Flatten([i \in 1..Len(objs) |-> listChildren(objs[i])])
      first[n \in 0..Len(all)] ==
        IF n = 0 THEN <<>>
        ELSE IF \E j \in 1..(n - 1) : all[j] = all[n] THEN first[n - 1]
        ELSE Append(first[n - 1], all[n])
  IN  IF data_type = "Image" THEN objs ELSE first[Len(all)]

get_roots(data_type, ids) ==
  LET objs == getObjects(data_type, ids)
  IN  IF data_type = "Image"
        THEN objs
        ELSE Flatten([i \in 1..Len(objs) |-> listChildren(objs[i])])

IdLists(S) == UNION {[1..n -> S] : n \in 0..MaxIds}

Params ==
  {[Data_Type |-> "Image", IDs |-> ids] : ids \in IdLists(ImageIds)}
    \cup {[Data_Type |-> "Dataset", IDs |-> ids] : ids \in IdLists(DatasetIds)}

(***************************************************************************)
(* The summary message of chain.launch: the format string and the values   *)
(* "%" substitutes into it, in order.                                      *)
(***************************************************************************)
Message_swapped(ni, nb) ==
  IF ni = 0 THEN [text |-> "No images selected", args |-> <<>>]
  ELSE IF nb # 0
    THEN [text |-> "Failed denoising %i of %i images", args |-> <<nb, ni>>]
  ELSE IF nb = ni
    THEN [text |-> "Failed denoising all images", args |-> <<>>]
  ELSE [text |-> "Finished denoising all images", args |-> <<>>]

Message(ni, nb) ==
  IF ni = 0 THEN [text |-> "No images selected", args |-> <<>>]
  ELSE IF nb = ni
    THEN [text |-> "Failed denoising all images", args |-> <<>>]
  ELSE IF nb # 0
    THEN [text |-> "Failed denoising %i of %i images", args |-> <<nb, ni>>]
  ELSE [text |-> "Finished denoising all images", args |-> <<>>]

(***************************************************************************)
(* The supervised subprocess.  The clock `now` counts from Popen; the      *)
(* subprocess exits at exitAt with exitCode, or never.                     *)
(***************************************************************************)
ArgVectors   == {<<"bin">>, <<"bin", "-x">>}
Deadlines    == {NoDeadline, <<0>>, <<15>>}
ExitInstants == {<<0>>, <<12>>, <<25>>, Never}
ExitCodes    == {0, 3}

SupIdle ==
  [pc |-> "idle", kind |-> None, args |-> <<>>, deadline |-> NoDeadline,
   exitAt |-> Never, exitCode |-> 0, now |-> 0, keepalives |-> 0,
   sleeps |-> 0, lastOp |-> None, terminated |-> FALSE,
   outcome |-> [kind |-> None, args |-> <<>>, code |-> 0]]

\* subprocess.Popen(args, ...), followed by the loop's first test.
Popen(kind, args, deadline, exitAt, exitCode) ==
  [SupIdle EXCEPT !.pc = "test", !.kind = kind, !.args = args,
                  !.deadline = deadline, !.exitAt = exitAt,
                  !.exitCode = exitCode, !.lastOp = "Popen"]

\* finished(): p.poll() is not None.
finished(s) == s.exitAt # Never /\ s.exitAt[1] <= s.now

\* `if timeout:` -- None and 0 both mean no deadline.
DeadlineGiven(t) == t # NoDeadline /\ t[1] # 0

\* What the lambda was meant to compute: the clock is past the deadline.
timeout_deadline(s) == DeadlineGiven(s.deadline) /\ s.now > s.deadline[1]

\* timeout(): with a deadline given the closure is
\*   lambda : time.time() > timeout
\* and the name `timeout` it reads is the local the lambda itself was just
\* assigned to, so the clock is compared with a function.  CPython 2 orders
\* every number below every non-number: the comparison is False at any time.
\* Without a deadline the closure is lambda : False.
timeout(s) == IF DeadlineGiven(s.deadline) THEN FALSE ELSE FALSE


\* The exceptions the supervisor raises, with the arguments they carry.
bin_bad_exit_code1(args, code) ==
  [kind |-> "bin_bad_exit", args |-> args, code |-> 1]

bin_bad_exit(args, code) ==
  [kind |-> "bin_bad_exit", args |-> args, code |-> code]

Raised(kind) == [kind |-> kind, args |-> <<>>, code |-> 0]

Returned == [kind |-> "returned", args |-> <<>>, code |-> 0]

(***************************************************************************)
(* The polling loop, shared by bin_block.process and run_matlab:           *)
(*   while not finished() and not timeout():                               *)
(*     self.conn.keepAlive()                                               *)
(*     time.sleep(timeout_grain)                                           *)
(***************************************************************************)
SupTest ==
  /\ sup.pc = "test"
  /\ sup' = [sup EXCEPT !.lastOp = "poll",
                        !.pc = IF ~finished(sup) /\ ~timeout(sup)
                                 THEN "keepalive" ELSE "after"]
  /\ UNCHANGED <<chainVars, blockVars, histVars>>
  /\ UNCHANGED <<lingering, auxVars>>

\* A loop that signals liveness only when a deadline was given.
SupKeepAlive_deadline_only ==
  /\ sup.pc = "keepalive"
  /\ sup' = [sup EXCEPT !.keepalives =
                          IF DeadlineGiven(sup.deadline)
                            THEN Min(sup.keepalives + 1, MaxPolls)
                            ELSE sup.keepalives,
                        !.lastOp =
                          IF DeadlineGiven(sup.deadline)
                            THEN "keepAlive" ELSE sup.lastOp,
                        !.pc = "sleep"]
  /\ UNCHANGED <<chainVars, blockVars, histVars>>
  /\ UNCHANGED <<lingering, auxVars>>

SupKeepAlive ==
  /\ sup.pc = "keepalive"
  /\ sup' = [sup EXCEPT !.keepalives = Min(sup.keepalives + 1, MaxPolls),
                        !.lastOp = "keepAlive",
                        !.pc = "sleep"]
  /\ UNCHANGED <<chainVars, blockVars, histVars>>
  /\ UNCHANGED <<lingering, auxVars>>

SupSleep ==
  /\ sup.pc = "sleep"
  /\ sup' = [sup EXCEPT !.now = Min(sup.now + TimeoutGrain, MaxClock),
                        !.sleeps = Min(sup.sleeps + 1, MaxPolls),
                        !.lastOp = "sleep",
                        !.pc = "test"]
  /\ UNCHANGED <<chainVars, blockVars, histVars>>
  /\ UNCHANGED <<lingering, auxVars>>

(***************************************************************************)
(* After the loop:                                                         *)
(*   if finished() and p.returncode != 0: raise bin_bad_exit(...)          *)
(*   elif timeout(): p.terminate(); raise timeout_reached(...)             *)
(* run_matlab repeats these lines with the names p and args, which it      *)
(* never binds: evaluating either raises NameError.  Past them it keeps    *)
(* the code as a log, self.flog = self.get_tmp_file(suffix = ".code").     *)
(***************************************************************************)
SupAfter ==
  /\ sup.pc = "after"
  /\ IF sup.kind = "bin"
       THEN /\ sup' = [sup EXCEPT
                 !.pc = "ended",
                 !.outcome =
                   IF finished(sup) /\ sup.exitCode # 0
                     THEN bin_bad_exit(sup.args, sup.exitCode)
                   ELSE IF timeout(sup) THEN Raised("timeout_reached")
                   ELSE Returned,
                 !.terminated =
                   ~(finished(sup) /\ sup.exitCode # 0) /\ timeout(sup)]
            /\ UNCHANGED <<fin, flog, tmpfiles, ntmp>>
       ELSE IF finished(sup) \/ timeout(sup)
         THEN \* p.returncode, or p.terminate(): p is not bound
              /\ sup' = [sup EXCEPT !.pc = "ended",
                                    !.outcome = Raised("NameError")]
              /\ UNCHANGED <<fin, flog, tmpfiles, ntmp>>
         ELSE /\ sup' = [sup EXCEPT !.pc = "ended", !.outcome = Returned]
              /\ ntmp' = ntmp + 1
              /\ tmpfiles' = Append(tmpfiles, ntmp + 1)
              /\ flog' = {ntmp + 1}
              /\ UNCHANGED fin
  /\ UNCHANGED <<chainVars, histVars>>
  /\ UNCHANGED <<bkind, bpc, b_parent, dataset, datasetID, child, err, ran>>
  /\ UNCHANGED <<lingering, auxVars>>

SupNext == SupTest \/ SupKeepAlive \/ SupSleep \/ SupAfter

(***************************************************************************)
(* Temporary files.  get_tmp_file creates a NamedTemporaryFile, appends it *)
(* to self._tmpfiles and returns it; the file exists until the last        *)
(* reference to the object is dropped.  clean_tmp_files rebinds            *)
(* self._tmpfiles to an empty list.                                        *)
(***************************************************************************)
Range(f) == {f[i] : i \in DOMAIN f}

\* The temporary files the block still refers to, hence still on disk.
HeldTmp == Range(tmpfiles) \cup fin \cup flog

(***************************************************************************)
(* block.launch(parent):                                                   *)
(*   try: get_parent; parse_options; process; send_child; annotate         *)
(*   finally: clean_tmp_files                                              *)
(* A stage that raises sets err and control goes to the finally clause.    *)
(***************************************************************************)
\* A launch that notes the failure and goes on with the stage that follows.
Fail_goes_on(kind) ==
  /\ err' = kind
  /\ bpc' = IF bpc = "get_parent" THEN "parse_options"
            ELSE IF bpc = "parse_options" THEN "process"
            ELSE IF bpc \in {"process", "supervising"} THEN "send_child"
            ELSE IF bpc = "send_child" THEN "annotate"
            ELSE "finally"
  /\ failed' = failed + 1

Fail(kind) == /\ err' = kind
              /\ bpc' = "finally"
              /\ failed' = failed + 1

Pass(stage) == /\ bpc' = stage
               /\ UNCHANGED <<err, failed>>

BlockLaunch ==
  /\ cpc = "try"
  /\ bpc = "idle"
  /\ bpc' = "get_parent"
  /\ err' = None
  /\ ran' = <<>>
  /\ launched' = Append(launched, [block |-> bi, item |-> parent])
  /\ UNCHANGED <<chainVars, sup, failed>>
  /\ UNCHANGED <<bkind, b_parent, dataset, datasetID, child, fin, flog,
                 tmpfiles, ntmp>>
  /\ UNCHANGED <<lingering, auxVars>>

\* block.get_parent, then what the subclass adds to it.  matlab_block's
\* get_parent keeps a temporary file in self.fin and then reads the name
\* `im`, which is bound nowhere: NameError.
GetParent ==
  /\ bpc = "get_parent"
  /\ ran' = Append(ran, "get_parent")
  /\ b_parent' = parent
  /\ dataset' = None
  /\ datasetID' = IF listParents(parent) # <<>>
                    THEN Head(listParents(parent)) ELSE datasetID
  /\ IF bkind = "matlab"
       THEN /\ ntmp' = ntmp + 1
            /\ tmpfiles' = Append(tmpfiles, ntmp + 1)
            /\ fin' = {ntmp + 1}
            /\ Fail("NameError")
       ELSE /\ UNCHANGED <<ntmp, tmpfiles, fin>>
            /\ \E ok \in BOOLEAN :
                 IF ok THEN Pass("parse_options")
                       ELSE Fail("invalid_image")
  /\ UNCHANGED <<chainVars, sup, launched>>
  /\ UNCHANGED <<bkind, child, flog>>
  /\ UNCHANGED <<lingering, auxVars>>

ParseOptions ==
  /\ bpc = "parse_options"
  /\ ran' = Append(ran, "parse_options")
  /\ \E ok \in BOOLEAN :
       IF ok THEN Pass("process")
             ELSE Fail("invalid_parameter")
  /\ UNCHANGED <<chainVars, sup, launched>>
  /\ UNCHANGED <<bkind, b_parent, dataset, datasetID, child, fin, flog,
                 tmpfiles, ntmp>>
  /\ UNCHANGED <<lingering, auxVars>>

\* process() of a bin_block subclass: it rejects the parameters or the
\* image, or it calls bin_block.process(args, timeout = ...).
ProcessReject ==
  /\ bpc = "process"
  /\ ran' = Append(ran, "process")
  /\ \E kind \in {"invalid_parameter", "invalid_image"} : Fail(kind)
  /\ UNCHANGED <<chainVars, sup, launched>>
  /\ UNCHANGED <<bkind, b_parent, dataset, datasetID, child, fin, flog,
                 tmpfiles, ntmp>>
  /\ UNCHANGED <<lingering, auxVars>>

ProcessStart ==
  /\ bpc = "process"
  /\ ran' = Append(ran, "process")
  /\ \E args \in ArgVectors, deadline \in Deadlines,
        exitAt \in ExitInstants, exitCode \in ExitCodes :
       /\ exitAt = Never => exitCode = 0
       /\ sup' = Popen("bin", args, deadline, exitAt, exitCode)
  /\ bpc' = "supervising"
  /\ UNCHANGED <<chainVars, histVars>>
  /\ UNCHANGED <<bkind, b_parent, dataset, datasetID, child, fin, flog,
                 tmpfiles, ntmp, err>>
  /\ UNCHANGED <<lingering, auxVars>>

ProcessEnd ==
  /\ bpc = "supervising"
  /\ sup.pc = "ended"
  /\ IF sup.outcome.kind = "returned"
       THEN Pass("send_child")
       ELSE Fail(sup.outcome.kind)
  /\ sup' = SupIdle
  /\ lingering' = IF finished(sup) THEN lingering ELSE lingering + 1
  /\ UNCHANGED <<chainVars, launched>>
  /\ UNCHANGED <<bkind, b_parent, dataset, datasetID, child, fin, flog,
                 tmpfiles, ntmp, ran>>
  /\ UNCHANGED auxVars

\* bin_block.send_child: reads self.datasetID, runs the import, and on
\* exit status 0 reads the new image's id (0 when none was printed).
SendChild ==
  /\ bpc = "send_child"
  /\ ran' = Append(ran, "send_child")
  /\ \E ret_code \in {0, 1}, gotId \in BOOLEAN :
       IF datasetID = Unset
         THEN Fail("AttributeError") /\ UNCHANGED child
       ELSE IF ret_code = 0 /\ gotId
         THEN /\ child' = ImportedFrom(b_parent)
              /\ Pass("annotate")
       ELSE Fail("Exception") /\ UNCHANGED child
  /\ UNCHANGED <<chainVars, sup, launched>>
  /\ UNCHANGED <<bkind, b_parent, dataset, datasetID, fin, flog,
                 tmpfiles, ntmp>>
  /\ UNCHANGED <<lingering, auxVars>>

Annotate ==
  /\ bpc = "annotate"
  /\ ran' = Append(ran, "annotate")
  /\ \E ok \in BOOLEAN :
       IF ok THEN Pass("finally")
             ELSE Fail("Exception")
  /\ UNCHANGED <<chainVars, sup, launched>>
  /\ UNCHANGED <<bkind, b_parent, dataset, datasetID, child, fin, flog,
                 tmpfiles, ntmp>>
  /\ UNCHANGED <<lingering, auxVars>>

\* clean_tmp_files: self._tmpfiles = []
clean_tmp_files ==
  /\ tmpfiles' = <<>>
  /\ UNCHANGED <<fin, flog>>

Finally ==
  /\ bpc = "finally"
  /\ clean_tmp_files
  /\ ran' = Append(ran, "clean_tmp_files")
  /\ bpc' = "ended"
  /\ UNCHANGED <<chainVars, sup, histVars>>
  /\ UNCHANGED <<bkind, b_parent, dataset, datasetID, child, ntmp, err>>
  /\ UNCHANGED <<lingering, auxVars>>

(***************************************************************************)
(* chain.launch.                                                           *)
(***************************************************************************)
\* client.getInputs(unwrap = True) is a dict: Data_Type and IDs are always
\* in it (optional = False), and of the other parameters of the schema those
\* that were submitted, the script client leaving out the rest.  The value
\* of a key is a sequence: <<"True">> or <<"False">> for a Bool, <<"v">> for
\* any other parameter, the identifiers themselves for IDs.
NoInputs == [k \in {} |-> <<>>]

OptionalNames(args) ==
  {args[i].name : i \in DOMAIN args} \ {"Data_Type", "IDs"}

IsBool(args, name) ==
  \E i \in DOMAIN args : args[i].name = name /\ args[i].type = "Bool"

Inputs(args) ==
  UNION { { given \in [S -> {<<"True">>, <<"False">>, <<"v">>}] :
              \A k \in S : IsBool(args, k) <=> given[k] # <<"v">> } :
          S \in SUBSET OptionalNames(args) }

\* k in params.keys()
HasKey(p, k) == k \in {"Data_Type", "IDs"} \cup DOMAIN p.given

\* params[k]
Value(p, k) ==
  IF k = "Data_Type" THEN <<p.Data_Type>>
  ELSE IF k = "IDs" THEN p.IDs
  ELSE p.given[k]

\* A filter that also hands the block its enable flag.
block_options_with_flag(block, p) ==
  LET ks == {block.args[i].name : i \in DOMAIN block.args} \cup {block.title}
  IN  [k \in {k \in ks : HasKey(p, k)} |-> Value(p, k)]

\* ks = [arg.name() for arg in block.args]
\* block.options = dict((k, params[k]) for k in ks if k in params.keys())
block_options(block, p) ==
  LET ks == {block.args[i].name : i \in DOMAIN block.args}
  IN  [k \in {k \in ks : HasKey(p, k)} |-> Value(p, k)]

\* The connection is set up, the submitted parameters are read, every block
\* is given its options and get_roots resolves the items.
Launch ==
  /\ cpc = "constructed"
  /\ \E p \in Params, given \in Inputs(cons.args) :
       LET submitted ==
             [Data_Type |-> p.Data_Type, IDs |-> p.IDs, given |-> given]
       IN  /\ params' = submitted
           /\ cons' = [cons EXCEPT !.blocks =
                 [n \in DOMAIN cons.blocks |->
                    [cons.blocks[n] EXCEPT
                       !.options = block_options(cons.blocks[n], submitted)]]]
           /\ roots' = get_roots(p.Data_Type, p.IDs)
  /\ nbads' = 0
  /\ nimgs' = 0
  /\ idx' = 0
  /\ cpc' = "loop"
  /\ UNCHANGED <<bi, parent, output, blockVars, sup, histVars>>
  /\ UNCHANGED <<lingering, ml>>

\* for root in ...: nimgs += 1; parent = root; try: for block in self.blocks
NextRoot_uncounted ==
  /\ cpc = "loop"
  /\ idx < Len(roots)
  /\ idx' = idx + 1
  /\ parent' = roots[idx + 1]
  /\ bi' = 1
  /\ cpc' = "try"
  /\ UNCHANGED <<nimgs, params, roots, nbads, output, blockVars, sup, histVars>>
  /\ UNCHANGED <<lingering, auxVars>>

NextRoot ==
  /\ cpc = "loop"
  /\ idx < Len(roots)
  /\ idx' = idx + 1
  /\ nimgs' = nimgs + 1
  /\ parent' = roots[idx + 1]
  /\ bi' = 1
  /\ cpc' = "try"
  /\ UNCHANGED <<params, roots, nbads, output, blockVars, sup, histVars>>
  /\ UNCHANGED <<lingering, auxVars>>

\* What block.launch returns: it has no return statement.
launch_result == None

\* child = block.launch(parent); parent = child; then the next block, or
\* the end of the inner loop.
BlockReturn ==
  /\ cpc = "try"
  /\ bpc = "ended"
  /\ err = None
  /\ parent' = launch_result
  /\ bpc' = "idle"
  /\ IF bi < NBlocks
       THEN bi' = bi + 1 /\ UNCHANGED cpc
       ELSE cpc' = "item_ok" /\ UNCHANGED bi
  /\ UNCHANGED <<params, roots, idx, nimgs, nbads, output, sup, histVars>>
  /\ UNCHANGED <<bkind, b_parent, dataset, datasetID, child, fin, flog,
                 tmpfiles, ntmp, err, ran>>
  /\ UNCHANGED <<lingering, auxVars>>

ItemOk ==
  /\ cpc = "item_ok"
  /\ cpc' = "loop"
  /\ UNCHANGED <<params, roots, idx, bi, nimgs, nbads, parent, output>>
  /\ UNCHANGED <<blockVars, sup, histVars>>
  /\ UNCHANGED <<lingering, auxVars>>

\* A handler that gives up on the remaining items.
BlockRaise_abort ==
  /\ cpc = "try"
  /\ bpc = "ended"
  /\ err # None
  /\ nbads' = nbads + 1
  /\ idx' = Len(roots)
  /\ bpc' = "idle"
  /\ err' = None
  /\ cpc' = "loop"
  /\ UNCHANGED <<params, roots, bi, nimgs, parent, output, sup, histVars>>
  /\ UNCHANGED <<bkind, b_parent, dataset, datasetID, child, fin, flog,
                 tmpfiles, ntmp, ran>>
  /\ UNCHANGED <<lingering, auxVars>>

\* except Exception as e: nbads += 1
BlockRaise ==
  /\ cpc = "try"
  /\ bpc = "ended"
  /\ err # None
  /\ nbads' = nbads + 1
  /\ bpc' = "idle"
  /\ err' = None
  /\ cpc' = "loop"
  /\ UNCHANGED <<params, roots, idx, bi, nimgs, parent, output, sup, histVars>>
  /\ UNCHANGED <<bkind, b_parent, dataset, datasetID, child, fin, flog,
                 tmpfiles, ntmp, ran>>
  /\ UNCHANGED <<lingering, auxVars>>

\* After the loop: the message, and client.setOutput("Message", ...).
Finish ==
  /\ cpc = "loop"
  /\ idx = Len(roots)
  /\ output' = Append(output, Message(nimgs, nbads))
  /\ cpc' = "done"
  /\ UNCHANGED <<params, roots, idx, bi, nimgs, nbads, parent>>
  /\ UNCHANGED <<blockVars, sup, histVars>>
  /\ UNCHANGED <<lingering, auxVars>>

(***************************************************************************)
(* matlab_block.protect_exit and the session that runs its result.  A code *)
(* text is a sequence of statements; of the statements a caller submits    *)
(* the model tells apart one that completes ("ok"), one that raises an     *)
(* error ("error"), one that calls exit itself ("exit3") and one that does *)
(* not return ("hang").                                                    *)
(***************************************************************************)
(***************************************************************************)
(* Construction: bin_block.__init__ for every block of the list, then      *)
(* chain.__init__ on the list.  A parameter descriptor is a record of its  *)
(* name, its type and its grouping; a grouping "1.2" is the sequence of    *)
(* its components <<"1", "2">>, so that a + "." + b is a \o b.             *)
(***************************************************************************)
MaxBlocks == 2       \* the list handed to chain() has at most MaxBlocks blocks
MaxChains == 2       \* the script constructs at most MaxChains chains of it

Param(name, type, grouping) ==
  [name |-> name, type |-> type, grouping |-> grouping]

\* The block classes of the model: their titles and the parameters their
\* constructors put in self.args.
BlockTypes ==
  { [title |-> "Denoise", options |-> NoInputs,
     args |-> << Param("p1", "Int", <<"1">>), Param("p2", "Float", <<"2">>) >>],
    [title |-> "Sharpen", options |-> NoInputs,
     args |-> << Param("q1", "Int", <<"1">>) >>],
    [title |-> "Crop", options |-> NoInputs,
     args |-> << Param("IDs", "List", <<"1">>) >>] }

BlockLists == UNION {[1..n -> BlockTypes] : n \in 0..MaxBlocks}

\* The file system: what each path names.
PathKind(path) ==
  IF path = "/missing" THEN "missing"
  ELSE IF path = "/dir" THEN "directory"
  ELSE IF path = "/file" THEN "plain file"
  ELSE "executable file"

BinPaths == {None, "", "/missing", "/dir", "/file", "/exec"}

\* distutils.spawn.find_executable(name): None, or a file found on the path.
Found == {None, "/file", "/exec"}

exists(path) == PathKind(path) # "missing"

isfile(path) == PathKind(path) \in {"plain file", "executable file"}

\* bin_block.__init__(bin_path): self.bin and the exception raised, if any.
bin_init(bin_path, found) ==
  LET bin == IF bin_path \notin {None, ""} THEN bin_path ELSE found
  IN  IF bin \in {None, ""} THEN [bin |-> bin, error |-> "no_bin"]
      ELSE IF ~exists(bin) THEN [bin |-> bin, error |-> "no_bin"]
      ELSE IF ~isfile(bin) THEN [bin |-> bin, error |-> "no_bin"]
      ELSE [bin |-> bin, error |-> None]

ConsIdle ==
  [pc |-> "idle", wanted |-> <<>>, blocks |-> <<>>, bin_path |-> None,
   found |-> None, bin |-> None, error |-> None, title |-> None,
   args |-> <<>>, chains |-> 0, prev_args |-> <<>>]

\* The script constructs the blocks of the list one after the other; a
\* constructor that raises ends the script.
BinBlockInit ==
  /\ cons.pc = "blocks"
  /\ Len(cons.blocks) < Len(cons.wanted)
  /\ \E bin_path \in BinPaths, found \in Found :
       LET r == bin_init(bin_path, found)
           type == cons.wanted[Len(cons.blocks) + 1]
       IN  cons' = [cons EXCEPT
             !.bin_path = bin_path, !.found = found, !.bin = r.bin,
             !.error = r.error,
             !.pc = IF r.error # None THEN "raised" ELSE "blocks",
             !.blocks = IF r.error # None THEN cons.blocks
                        ELSE Append(cons.blocks, type)]
  /\ UNCHANGED <<chainVars, blockVars, sup, histVars, lingering, ml>>

\* The two parameters every chain starts with.
GeneralArgs ==
  << Param("Data_Type", "String", <<"0", "1">>),
     Param("IDs", "List", <<"0", "2">>) >>

\* A constructor that accepts an empty list.
chain_init_error_lenient(nBlocks) ==
  IF nBlocks <= 1 THEN None ELSE "NotImplementedError"

\* The exception of chain.__init__ for a list of nBlocks blocks.
chain_init_error(nBlocks) ==
  IF nBlocks = 0 THEN "Exception"
  ELSE IF nBlocks = 1 THEN None
  ELSE "NotImplementedError"

\* bg % (n+1): the block's position, in decimal (lists of up to 9 blocks, so
\* the width len(str(nBlocks)) is 1 and nothing is padded).
Decimal(n) == <<"1", "2", "3", "4", "5", "6", "7", "8", "9">>[n]

\* A tagging that puts the block's position last.
Regroup_suffix(subgroup, arg) ==
  [arg EXCEPT !.grouping = arg.grouping \o <<subgroup>>]

\* arg.grouping = subgroup + "." + arg.grouping
Regroup(subgroup, arg) ==
  [arg EXCEPT !.grouping = <<subgroup>> \o arg.grouping]

\* The block as the loop leaves it: its descriptors are tagged in place.
Tagged(n, block) ==
  [block EXCEPT !.args = [k \in DOMAIN block.args |->
                            Regroup(Decimal(n), block.args[k])]]

\* What the loop appends for the block at position n: its enable flag,
\* then its own descriptors.
BlockArgs(n, block) ==
  << Param(block.title, "Bool", <<Decimal(n)>>) >> \o Tagged(n, block).args

\* chain.__init__(blocks), on the block objects the script constructed; the
\* script may construct another chain of the same objects before it
\* launches one.
ChainInit ==
  /\ cons.pc \in {"blocks", "constructed"}
  /\ Len(cons.blocks) = Len(cons.wanted)
  /\ cpc \in {"new", "constructed"}
  /\ cons.chains < MaxChains
  /\ LET blocks == cons.blocks
         nBlocks == Len(blocks)
         error == chain_init_error(nBlocks)
     IN  IF error # None
           THEN /\ cons' = [cons EXCEPT !.pc = "raised", !.error = error,
                                        !.args = GeneralArgs]
                /\ cpc' = "raised"
           ELSE /\ cons' = [cons EXCEPT
                     !.pc = "constructed",
                     !.chains = cons.chains + 1,
                     !.prev_args = cons.args,
                     !.title = IF nBlocks = 1 THEN blocks[1].title ELSE None,
                     !.blocks = [n \in 1..nBlocks |-> Tagged(n, blocks[n])],
                     !.args = GeneralArgs \o
                       Flatten([n \in 1..nBlocks |-> BlockArgs(n, blocks[n])])]
                /\ cpc' = "constructed"
  /\ UNCHANGED <<params, roots, idx, bi, nimgs, nbads, parent, output>>
  /\ UNCHANGED <<blockVars, sup, histVars, lingering, ml>>

MaxCode == 3         \* the submitted code has at most MaxCode statements

Statements == {"ok", "error", "exit3", "hang"}

CodeTexts == UNION {[1..n -> Statements] : n \in 0..MaxCode}

\* An envelope without its last line.
protect_exit_no_exit(code) ==
  <<"status = 0", "try">> \o code
    \o <<"catch", "disp message", "disp stack", "status = 1", "end">>

protect_exit(code) ==
  <<"status = 0", "try">> \o code
    \o <<"catch", "disp message", "disp stack", "status = 1", "end",
         "exit (status)">>

MlIdle ==
  [pc |-> "idle", code |-> <<>>, text |-> <<>>, pos |-> 1, mode |-> "top",
   status |-> 0, exit |-> 0]

\* The session after run_matlab wrote the text to its stdin.
MlStarted(code) ==
  [MlIdle EXCEPT !.pc = "running", !.code = code, !.text = protect_exit(code)]

\* The position of the next `word` after position i of the text.
NextWord(text, i, word) ==
  CHOOSE k \in (i + 1)..Len(text) :
    /\ text[k] = word
    /\ \A j \in (i + 1)..(k - 1) : text[j] # word

\* The interpreter executes the statement at ml.pos.  In a try block an
\* error transfers control to the catch block; without an error the catch
\* block is skipped; exit ends the process with the status given.  With
\* the text used up and the process still running, it waits for more input.
MatlabStep ==
  /\ ml.pc = "running"
  /\ LET st == IF ml.pos <= Len(ml.text) THEN ml.text[ml.pos] ELSE "EOF"
         on == [ml EXCEPT !.pos = ml.pos + 1]
     IN  ml' =
           IF st = "EOF" THEN [ml EXCEPT !.pc = "awaiting"]
           ELSE IF st = "status = 0" THEN [on EXCEPT !.status = 0]
           ELSE IF st = "status = 1" THEN [on EXCEPT !.status = 1]
           ELSE IF st = "try" THEN [on EXCEPT !.mode = "try"]
           ELSE IF st = "catch"
             THEN [ml EXCEPT !.pos = NextWord(ml.text, ml.pos, "end") + 1,
                             !.mode = "top"]
           ELSE IF st = "end" THEN [on EXCEPT !.mode = "top"]
           ELSE IF st = "error"
             THEN [ml EXCEPT !.pos = NextWord(ml.text, ml.pos, "catch") + 1,
                             !.mode = "catch"]
           ELSE IF st = "exit3" THEN [ml EXCEPT !.pc = "exited", !.exit = 3]
           ELSE IF st = "exit (status)"
             THEN [ml EXCEPT !.pc = "exited", !.exit = ml.status]
           ELSE IF st = "hang" THEN [ml EXCEPT !.pc = "looping"]
           ELSE on
  /\ UNCHANGED <<chainVars, blockVars, sup, histVars, lingering, cons>>

(***************************************************************************)
(* Specifications.  Spec is a launch of a constructed chain, whose single  *)
(* block is a bin_block subclass or a matlab_block.  SupSpec is a direct   *)
(* call of bin_block.process or of run_matlab on a started session.        *)
(***************************************************************************)
InitBlock ==
  /\ b_parent = Unset
  /\ dataset = Unset
  /\ datasetID = Unset
  /\ child = Unset
  /\ fin = {}
  /\ flog = {}
  /\ tmpfiles = <<>>
  /\ ntmp = 0
  /\ err = None
  /\ ran = <<>>

InitChain ==
  /\ params = [Data_Type |-> None, IDs |-> <<>>, given |-> NoInputs]
  /\ roots = <<>>
  /\ idx = 0
  /\ bi = 1
  /\ nimgs = 0
  /\ nbads = 0
  /\ parent = None
  /\ output = <<>>
  /\ launched = <<>>
  /\ failed = 0
  /\ lingering = 0

Init ==
  /\ cpc = "constructed"
  /\ bkind \in {"bin", "matlab"}
  /\ bpc = "idle"
  /\ sup = SupIdle
  /\ InitBlock
  /\ InitChain
  /\ cons = ConsIdle
  /\ ml = MlIdle

Next ==
  \/ Launch \/ NextRoot \/ BlockLaunch \/ GetParent \/ ParseOptions
  \/ ProcessReject \/ ProcessStart \/ ProcessEnd \/ SendChild \/ Annotate
  \/ Finally \/ BlockReturn \/ ItemOk \/ BlockRaise \/ Finish
  \/ SupTest \/ SupKeepAlive \/ SupSleep \/ SupAfter

Spec == Init /\ [][Next]_vars

\* The interpreter runs the method to its end: a step that can be taken is
\* taken.
FairSpec == Spec /\ WF_vars(Next)

SupInit ==
  /\ cpc = "direct"
  /\ bpc = "direct"
  /\ bkind \in {"bin", "matlab"}
  /\ \E args \in ArgVectors, deadline \in Deadlines,
        exitAt \in ExitInstants, exitCode \in ExitCodes :
       /\ exitAt = Never => exitCode = 0
       /\ sup = Popen(bkind, args, deadline, exitAt, exitCode)
  /\ InitBlock
  /\ InitChain
  /\ cons = ConsIdle
  /\ ml = MlIdle

SupSpec == SupInit /\ [][SupNext]_vars

\* A session that was handed protect_exit(code); the interpreter keeps
\* executing while there is a statement to execute.
\* A script that constructs the blocks of a list and a chain of them, and
\* launches the chain: up to the first launch of a block.
BuildInit ==
  /\ cpc = "new"
  /\ bpc = "idle"
  /\ bkind = "bin"
  /\ sup = SupIdle
  /\ InitBlock
  /\ InitChain
  /\ ml = MlIdle
  /\ \E wanted \in BlockLists :
       cons = [ConsIdle EXCEPT !.pc = "blocks", !.wanted = wanted]

BuildNext == BinBlockInit \/ ChainInit \/ Launch \/ NextRoot \/ BlockLaunch

BuildSpec == BuildInit /\ [][BuildNext]_vars

\* A script that launches the chain of one matlab_block it has constructed.
\* Every activation of such a block ends in get_parent, so these are the
\* steps the run can take.
RunInit ==
  /\ cpc = "constructed"
  /\ bpc = "idle"
  /\ bkind = "matlab"
  /\ sup = SupIdle
  /\ InitBlock
  /\ InitChain
  /\ ml = MlIdle
  /\ \E block \in BlockTypes :
       cons = [ConsIdle EXCEPT
                 !.pc = "constructed", !.wanted = <<block>>,
                 !.blocks = <<Tagged(1, block)>>, !.bin = "/exec",
                 !.title = block.title, !.chains = 1,
                 !.args = GeneralArgs \o BlockArgs(1, block)]

RunNext ==
  \/ Launch \/ NextRoot \/ BlockLaunch \/ GetParent \/ Finally
  \/ BlockRaise \/ Finish

RunSpec == RunInit /\ [][RunNext]_vars

EnvInit ==
  /\ cpc = "direct"
  /\ bpc = "direct"
  /\ bkind = "matlab"
  /\ sup = SupIdle
  /\ InitBlock
  /\ InitChain
  /\ cons = ConsIdle
  /\ \E code \in CodeTexts : ml = MlStarted(code)

EnvNext == MatlabStep

EnvSpec == EnvInit /\ [][EnvNext]_vars /\ WF_vars(EnvNext)

(***************************************************************************)
(* Properties of chain.launch.                                             *)
(***************************************************************************)
NoImages    == [text |-> "No images selected", args |-> <<>>]
FinishedAll == [text |-> "Finished denoising all images", args |-> <<>>]
FailedAll   == [text |-> "Failed denoising all images", args |-> <<>>]
FailedSome(n, m) ==
  [text |-> "Failed denoising %i of %i images", args |-> <<n, m>>]

\* C1: when launch is done with M resolved items of which N failed, the one
\* message it reported is "No images selected" iff M = 0, "Finished
\* denoising all images" iff M > 0 and N = 0, "Failed denoising all images"
\* iff M > 0 and N = M, and "Failed denoising N of M images", with these N
\* and M, iff 0 < N < M; so exactly one of the four forms is produced.
C1_SummaryMessage ==
  cpc = "done" =>
    LET M == Len(roots)
        N == failed
        msg == output[Len(output)]
    IN  /\ Len(output) = 1
        /\ (msg = NoImages) <=> (M = 0)
        /\ (msg = FinishedAll) <=> (M > 0 /\ N = 0)
        /\ (msg = FailedAll) <=> (M > 0 /\ N = M)
        /\ (msg = FailedSome(N, M)) <=> (0 < N /\ N < M)
        /\ msg.text = FailedSome(N, M).text => msg = FailedSome(N, M)

\* Three items were resolved, one failed, two succeeded, and the partial
\* failure was reported.
C1_Witness ==
  /\ cpc = "done"
  /\ Len(roots) = 3
  /\ failed = 1
  /\ output = <<FailedSome(1, 3)>>

\* C2: at every point of the item loop nbads is at most nimgs, and nbads
\* changes only by one, on the step that ends an item's traversal (the
\* handler), so one item raises it by at most one.
C2_FailuresBounded ==
  /\ [](nbads <= nimgs)
  /\ [][nbads' # nbads =>
          /\ nbads' = nbads + 1
          /\ cpc = "try" /\ cpc' = "loop"
          /\ nimgs' = nimgs]_vars

\* Every item failed, and there were several.
C2_Witness ==
  /\ cpc = "done"
  /\ nimgs >= 2
  /\ nbads = nimgs

\* C3: every resolved item is launched on the first block exactly once, in
\* resolution order, whatever failed before it: the launches made so far
\* are the first roots, in order, and when launch is done all of them.
C3_PerItemIsolation ==
  /\ \A i \in 1..Len(launched) :
       i <= Len(roots) /\ launched[i] = [block |-> 1, item |-> roots[i]]
  /\ Len(launched) <= Len(roots)
  /\ cpc \in {"loop", "item_ok", "done"} => Len(launched) = idx
  /\ cpc = "done" => Len(launched) = Len(roots)

\* Two items failed, the third was launched all the same, and its
\* subprocess exited with a bad status.
C3_Witness ==
  /\ idx = 3
  /\ Len(launched) = 3
  /\ failed = 3
  /\ err = "bin_bad_exit"

\* C4: a launched chain always completes and reports once.  Stated for the
\* runs whose supervised subprocesses are all given a deadline, the case in
\* which a subprocess that does not exit is to be terminated.
C4_LaunchReports ==
  [](sup.pc # "idle" => DeadlineGiven(sup.deadline))
    => ((cpc = "loop") ~> (cpc = "done" /\ Len(output) = 1))

(***************************************************************************)
(* Properties of the supervisor loop.                                      *)
(***************************************************************************)
\* C5: while the subprocess or session is supervised, every sleep is
\* directly preceded by keepAlive, there are at least as many keepAlive
\* calls as sleeps, and after k poll intervals of supervision (and in a run
\* of k full intervals) there were at least k keepAlive calls, with or
\* without a deadline.
C5_KeepAlivePerInterval ==
  /\ sup.pc = "sleep" => sup.lastOp = "keepAlive"
  /\ sup.keepalives >= sup.sleeps
  /\ sup.keepalives * TimeoutGrain >= sup.now
  /\ (sup.pc \in {"after", "ended"} /\ sup.exitAt # Never) =>
       sup.keepalives >= sup.exitAt[1] \div TimeoutGrain

\* A run of 25 time units under a deadline, supervised to its end.
C5_Witness ==
  /\ sup.pc = "ended"
  /\ sup.exitAt = <<25>>
  /\ DeadlineGiven(sup.deadline)
  /\ sup.keepalives >= 2

\* C6: when bin_block.process is given a deadline and the subprocess is
\* still running when the deadline passes, process terminates it and raises
\* timeout_reached; it neither raises bin_bad_exit nor returns.
C6_TimeoutTerminates ==
  ( /\ sup.kind = "bin"
    /\ sup.pc = "ended"
    /\ DeadlineGiven(sup.deadline)
    /\ (sup.exitAt = Never \/ sup.exitAt[1] > sup.deadline[1]) )
  => (sup.outcome.kind = "timeout_reached" /\ sup.terminated)

\* C7: when the subprocess exits with status 0 before the deadline, or no
\* deadline is set, bin_block.process returns: no timeout_reached, no
\* bin_bad_exit, no terminate, wherever the exit and the deadline fall
\* between the polls.
C7_SuccessReturns ==
  ( /\ sup.kind = "bin"
    /\ sup.exitAt # Never
    /\ sup.exitCode = 0
    /\ (DeadlineGiven(sup.deadline) => sup.exitAt[1] < sup.deadline[1]) )
  => /\ ~sup.terminated
     /\ sup.pc = "ended" => sup.outcome = Returned

\* The subprocess exited at 12, before the deadline of 15, and the poll that
\* saw it came at 20, after the deadline.
C7_Witness ==
  /\ sup.kind = "bin"
  /\ sup.pc = "ended"
  /\ sup.exitAt = <<12>>
  /\ sup.exitCode = 0
  /\ sup.deadline = <<15>>
  /\ sup.now = 20
  /\ sup.outcome = Returned

\* C8: when the subprocess exits with a status c other than 0,
\* bin_block.process raises bin_bad_exit carrying the argument vector and c.
C8_BadExitCarriesCode ==
  ( /\ sup.kind = "bin"
    /\ sup.pc = "ended"
    /\ sup.exitAt # Never
    /\ sup.exitCode # 0 )
  => sup.outcome =
       [kind |-> "bin_bad_exit", args |-> sup.args, code |-> sup.exitCode]

C8_Witness ==
  /\ sup.kind = "bin"
  /\ sup.pc = "ended"
  /\ sup.exitCode = 3
  /\ sup.args = <<"bin", "-x">>
  /\ sup.outcome.kind = "bin_bad_exit"
  /\ sup.outcome.code = 3

(***************************************************************************)
(* Properties of block.launch.                                             *)
(***************************************************************************)
Count(seq, x) == Cardinality({i \in DOMAIN seq : seq[i] = x})

\* C9: in every activation, whichever stage fails, clean_tmp_files runs
\* exactly once, after the last stage that ran, and once launch is over the
\* block holds none of the temporary files made through get_tmp_file.
C9_TmpReleased ==
  bpc = "ended" =>
    /\ Count(ran, "clean_tmp_files") = 1
    /\ ran[Len(ran)] = "clean_tmp_files"
    /\ HeldTmp = {}

\* C10: the first block is launched on the resolved item, and the item
\* handed on to the next block, once a block's launch has returned, is the
\* child that block produced.
C10_ChildFeedsNextBlock ==
  /\ (cpc = "try" /\ bi = 1 /\ bpc = "idle") => parent = roots[idx]
  /\ cpc = "item_ok" => parent = child

(***************************************************************************)
(* Properties of the protective envelope.                                  *)
(***************************************************************************)
\* Code whose statements each complete or raise an error.
Benign(code) == \A i \in DOMAIN code : code[i] \in {"ok", "error"}

Raises(code) == \E i \in DOMAIN code : code[i] = "error"

C12_ZeroBlocksRejected ==
  cons.wanted = <<>> =>
    /\ cons.pc \in {"blocks", "raised"}
    /\ cons.pc = "raised" => cons.error = "Exception"
    /\ cpc \in {"new", "raised"}
    /\ params.Data_Type = None
    /\ roots = <<>>
    /\ launched = <<>>

C12_Witness ==
  cons.wanted = <<>> /\ cons.pc = "raised" /\ cpc = "raised"

\* The chain's constructor has run on the whole list: it returned or raised.
ChainInitDone ==
  /\ Len(cons.blocks) = Len(cons.wanted)
  /\ cons.pc \in {"constructed", "raised"}

\* C13 as stated: the chain built from B1 = Denoise (p1, p2) and
\* B2 = Sharpen (q1) has the merged schema [Data_Type, IDs, flag(B1),
\* p1 "1.<key>", p2 "1.<key>", flag(B2), q1 "2.<key>"].
C13_TwoBlockSchema ==
  ( /\ Len(cons.wanted) = 2
    /\ cons.wanted[1].title = "Denoise"
    /\ cons.wanted[2].title = "Sharpen"
    /\ ChainInitDone )
  => /\ cons.pc = "constructed"
     /\ cons.args =
          << Param("Data_Type", "String", <<"0", "1">>),
             Param("IDs", "List", <<"0", "2">>),
             Param("Denoise", "Bool", <<"1">>),
             Param("p1", "Int", <<"1", "1">>),
             Param("p2", "Float", <<"1", "2">>),
             Param("Sharpen", "Bool", <<"2">>),
             Param("q1", "Int", <<"2", "1">>) >>

\* C13, amended: only a chain of one block is constructed, and its schema is
\* [Data_Type, IDs, flag(B1), then B1's parameters in declaration order,
\* each tagged "1.<key>"]; a list of two or more blocks is rejected with
\* NotImplementedError.
C13_OneBlockSchema ==
  /\ (cons.pc = "constructed" /\ cons.chains = 1) =>
       /\ Len(cons.wanted) = 1
       /\ LET B1 == cons.wanted[1]
          IN  /\ Len(cons.args) = 3 + Len(B1.args)
              /\ cons.args[1].name = "Data_Type"
              /\ cons.args[1].grouping = <<"0", "1">>
              /\ cons.args[2].name = "IDs"
              /\ cons.args[2].grouping = <<"0", "2">>
              /\ cons.args[3] = Param(B1.title, "Bool", <<"1">>)
              /\ \A k \in 1..Len(B1.args) :
                   /\ cons.args[3 + k].name = B1.args[k].name
                   /\ cons.args[3 + k].type = B1.args[k].type
                   /\ cons.args[3 + k].grouping = <<"1">> \o B1.args[k].grouping
  /\ (Len(cons.wanted) >= 2 /\ ChainInitDone) =>
       cons.pc = "raised" /\ cons.error = "NotImplementedError"

C13_Witness ==
  /\ cons.pc = "constructed"
  /\ cons.chains = 1
  /\ cons.wanted[1].title = "Denoise"
  /\ Len(cons.args) = 5

\* C15: a bin_block is constructed only on an existing executable file;
\* an unresolved path, a path that does not exist and a path that is not an
\* executable file each end the constructor with no_bin.
C15_BinMustBeExecutable ==
  (cons.bin # None \/ cons.error = "no_bin") =>
    ( cons.error # "no_bin" <=>
        (cons.bin # None /\ PathKind(cons.bin) = "executable file") )

\* C20: the names of the schema of a constructed chain are pairwise
\* distinct.
C20_NamesDistinct ==
  cons.pc = "constructed" =>
    \A i, j \in 1..Len(cons.args) :
      cons.args[i].name = cons.args[j].name => i = j

\* The number of images listed for the datasets before the d-th one.
RECURSIVE MembersBefore(_, _)
MembersBefore(ids, d) ==
  IF d = 1 THEN 0
  ELSE MembersBefore(ids, d - 1) + Len(listChildren(ids[d - 1]))

\* C14: for "Image" the roots are the images addressed, in the order of the
\* identifier list; for "Dataset" they are the members of the first dataset
\* in member order, then those of the second, and so on, an image of several
\* datasets being listed once for each.
C14_RootsResolved ==
  params.Data_Type # None =>
    LET ids == params.IDs
    IN  IF params.Data_Type = "Image"
          THEN /\ Len(roots) = Len(ids)
               /\ \A i \in 1..Len(ids) : roots[i] = ids[i]
          ELSE /\ Len(roots) = MembersBefore(ids, Len(ids) + 1)
               /\ \A d \in 1..Len(ids) :
                    \A m \in 1..Len(listChildren(ids[d])) :
                      roots[MembersBefore(ids, d) + m] = listChildren(ids[d])[m]

C14_Witness ==
  /\ params.Data_Type = "Dataset"
  /\ params.IDs = <<"ds1", "ds2">>
  /\ roots = <<"img1", "img2", "img2">>

Stages == <<"get_parent", "parse_options", "process", "send_child", "annotate">>

\* The stages the current activation has entered, in the order it did.
StagesRan == SelectSeq(ran, LAMBDA s : s # "clean_tmp_files")

\* C16: the stages of an activation are entered in the order get_parent,
\* parse_options, process, send_child, annotate, each only after all the
\* earlier ones returned; once a stage has failed no other stage is entered,
\* and the failure launch hands to its caller is that one.
C16_StagesInOrder ==
  /\ [](bpc # "idle" =>
         /\ StagesRan = SubSeq(Stages, 1, Len(StagesRan))
         /\ err # None => bpc \in {"finally", "ended"}
         /\ bpc = "get_parent" => StagesRan = <<>>
         /\ bpc = "parse_options" => Len(StagesRan) = 1
         /\ bpc \in {"process"} => Len(StagesRan) = 2
         /\ bpc \in {"supervising", "send_child"} => Len(StagesRan) = 3
         /\ bpc = "annotate" => Len(StagesRan) = 4
         /\ (bpc \in {"finally", "ended"} /\ err = None) =>
              Len(StagesRan) = 5)
  /\ [][ /\ err # None =>
             (err' = err \/ (cpc = "try" /\ bpc = "ended" /\ err' = None))
         /\ (err # None /\ bpc' \notin {"idle", "get_parent"}) =>
             StagesRan' = StagesRan ]_vars

\* An activation in which process failed on the exit status: send_child and
\* annotate were not entered, and launch is about to raise bin_bad_exit.
C16_Witness ==
  /\ bpc = "ended"
  /\ err = "bin_bad_exit"
  /\ ran = <<"get_parent", "parse_options", "process", "clean_tmp_files">>

\* C17: the destination dataset an activation uses is that of its own item:
\* once get_parent has returned, and up to send_child and annotate, datasetID
\* is the first dataset of the bound parent, and there is none when the
\* parent is in no dataset.
C17_NoLeakBetweenItems ==
  bpc \in {"parse_options", "process", "supervising", "send_child",
           "annotate"} =>
    /\ b_parent = parent
    /\ datasetID = IF listParents(b_parent) = <<>> THEN Unset
                   ELSE Head(listParents(b_parent))

\* C18: run_matlab ends as bin_block.process does for a subprocess of the
\* same behaviour: it returns when the session exited with status 0 and
\* raises bin_bad_exit carrying the status when it exited with another one.
C18_RunMatlabAsSupervisor ==
  (sup.kind = "matlab" /\ sup.pc = "ended" /\ finished(sup)) =>
    IF sup.exitCode = 0
      THEN sup.outcome = Returned
      ELSE /\ sup.outcome.kind = "bin_bad_exit"
           /\ sup.outcome.code = sup.exitCode

\* The subprocesses of this run that have not exited: the one being
\* supervised and those process() left behind.
ActiveSubprocesses ==
  lingering + (IF sup.pc # "idle" /\ ~finished(sup) THEN 1 ELSE 0)

C21_ConstructionRepeatable ==
  cons.pc = "constructed" =>
    /\ \A n \in 1..Len(cons.blocks) : cons.blocks[n].args = cons.wanted[n].args
    /\ cons.chains >= 2 => cons.args = cons.prev_args

\* A value was submitted for the enable flag of the chain's block.
FlagSubmitted == cons.title \in DOMAIN params.given

\* C22: whatever was submitted for the enable flag of a block (true, false
\* or nothing), the block is launched on every resolved item, in order, and
\* its options are the submitted values of its own declared parameters that
\* were submitted: the flag is not among them.
C22_EnableFlagIgnored ==
  params.Data_Type # None =>
    /\ \A n \in 1..Len(cons.blocks) :
         LET block == cons.blocks[n]
             declared == {block.args[i].name : i \in 1..Len(block.args)}
             submitted == {"Data_Type", "IDs"} \cup DOMAIN params.given
         IN  /\ DOMAIN block.options = declared \cap submitted
             /\ block.title \notin DOMAIN block.options
             /\ \A k \in DOMAIN block.options :
                  block.options[k] =
                    IF k = "IDs" THEN params.IDs ELSE params.given[k]
    /\ Len(launched) <= idx
    /\ \A i \in 1..Len(launched) :
         launched[i] = [block |-> 1, item |-> roots[i]]
    /\ cpc = "done" => Len(launched) = Len(roots)

\* The flag was submitted as false, and the block was launched on each of
\* the three items all the same, with the one parameter that was submitted.
C22_Witness ==
  /\ cpc = "done"
  /\ FlagSubmitted
  /\ params.given[cons.title] = <<"False">>
  /\ Len(roots) = 3
  /\ Len(launched) = 3
  /\ DOMAIN cons.blocks[1].options = {"p2"}

====
